---- MODULE Spec2Model ----
(***************************************************************************)
(* State-machine model of smwcentral-kaizo-archiver.py: the run            *)
(* orchestrator main(), the catalog paginator fetch_all_data(), the        *)
(* archive fetcher download_and_extract_bps() with the naming helpers, and *)
(* the patch adapter patch_bps_file().                                     *)
(*                                                                         *)
(* Text is modelled as a sequence of tokens.  A token is one character,    *)
(* or an atom standing for a run of characters none of the string          *)
(* operations looks inside (".zip", ".bps", "%20", a hex digest prefix,    *)
(* a word).  A JSON value that may be missing is a record tagged           *)
(* "absent", "null", "str" or "list".                                      *)
(***************************************************************************)
EXTENDS Integers, Sequences, FiniteSets, TLC

\* ------------------------------------------------------------------ bounds
\* pages one partition's cursor chain may have
MaxPages == 2
\* catalog items the server hands out during one run
MaxItems == 2
\* archive members the download server hands out during one run
MaxMembers == 2

\* ------------------------------------------------------------------ state
VARIABLES
  pc,            \* where main() is
  args,          \* the parsed command line and which local inputs exist
  endpoints,     \* the selected partitions
  ep,            \* number of partitions started
  global_stats,  \* label -> statistics, insertion-ordered
  stats,         \* the current partition's accumulator
  next_url,      \* fetch_all_data: the cursor
  page_num,      \* fetch_all_data: the page counter
  all_items,     \* fetch_all_data: accumulator, then main's item list
  idx,           \* items of the current partition already handled
  result,        \* the outcome of the current item's fetch
  patch_i,       \* patches of the current item already attempted
  patches_success,
  patches_failed,
  snapshot,      \* the JSON snapshots on disk, path -> item list
  report,        \* the summary report on disk
  page_log,      \* the page requests of the running fetch_all_data call
  served,        \* catalog items handed out so far in the run
  unpacked,      \* archive members handed out so far in the run
  io,            \* the effects of the current item's fetch
  outcomes,      \* what happened to each item of the current partition
  calls,         \* the patch applier calls made for the current item
  pending,       \* the kind of the last request no time.sleep has followed
  previous       \* the outcome of the call before, when a call is repeated

vars ==
  <<pc, args, endpoints, ep, global_stats, stats, next_url, page_num,
    all_items, idx, result, patch_i, patches_success, patches_failed,
    snapshot, report, page_log, served, unpacked, io, outcomes, calls,
    pending, previous>>

\* ------------------------------------------------------- optional values
Absent == [k |-> "absent"]
Null == [k |-> "null"]
Str(s) == [k |-> "str", v |-> s]
List(l) == [k |-> "list", v |-> l]

\* Python truthiness of a JSON value: None, "" and [] are falsy
Truthy(x) == x.k \in {"str", "list"} /\ x.v # <<>>

\* dict.get(key, default): the default only replaces a missing key
Get(x, default) == IF x.k = "absent" THEN default ELSE x

\* ------------------------------------------------------------ text helpers
RECURSIVE Concat(_)
Concat(ss) == IF ss = <<>> THEN <<>> ELSE Head(ss) \o Concat(Tail(ss))

RECURSIVE Join(_, _)
Join(sep, ss) ==
  IF ss = <<>> THEN <<>>
  ELSE IF Len(ss) = 1 THEN Head(ss)
  ELSE Head(ss) \o sep \o Join(sep, Tail(ss))

StartsWith(s, p) == Len(p) <= Len(s) /\ SubSeq(s, 1, Len(p)) = p

\* str.replace(old, new): every non-overlapping occurrence, left to right
RECURSIVE Replace(_, _, _)
Replace(s, old, new) ==
  IF old = <<>> THEN
    IF s = <<>> THEN new ELSE new \o <<Head(s)>> \o Replace(Tail(s), old, new)
  ELSE IF s = <<>> THEN <<>>
  ELSE IF StartsWith(s, old)
       THEN new \o Replace(SubSeq(s, Len(old) + 1, Len(s)), old, new)
       ELSE <<Head(s)>> \o Replace(Tail(s), old, new)

\* str.lower() on the tokens that occur in the model
LowerTok(t) ==
  CASE t = ".BPS" -> ".bps"
    [] t = ".Bps" -> ".bps"
    [] t = ".ZIP" -> ".zip"
    [] t = "Newcomer" -> "newcomer"
    [] t = "Casual" -> "casual"
    [] t = "Intermediate" -> "intermediate"
    [] t = "Advanced" -> "advanced"
    [] t = "Expert" -> "expert"
    [] t = "Master" -> "master"
    [] t = "Grandmaster" -> "grandmaster"
    [] OTHER -> t

Lower(s) == [i \in DOMAIN s |-> LowerTok(s[i])]

EndsWith(s, t) == s # <<>> /\ s[Len(s)] = t

\* urllib.parse.unquote
UnquoteTok(t) ==
  CASE t = "%20" -> " "
    [] t = "%5F" -> "_"
    [] OTHER -> t

Unquote(s) == [i \in DOMAIN s |-> UnquoteTok(s[i])]

\* download_url.split('/')[-1]
RECURSIVE LastSegment(_)
LastSegment(s) ==
  IF s = <<>> THEN <<>>
  ELSE IF s[Len(s)] = "/" THEN <<>>
  ELSE LastSegment(SubSeq(s, 1, Len(s) - 1)) \o <<s[Len(s)]>>

\* ------------------------------------------------------- sanitize_filename
IllegalChars == {"<", ">", ":", "\"", "/", "\\", "|", "?", "*"}
SpaceChars == {" ", "\n", "\r", "\t"}

RECURSIVE Collapse(_)
Collapse(s) ==
  IF s = <<>> THEN <<>>
  ELSE IF Head(s) \in SpaceChars \cup {"_"}
       THEN IF Tail(s) # <<>> /\ Head(Tail(s)) \in SpaceChars \cup {"_"}
            THEN Collapse(Tail(s))
            ELSE <<" ">> \o Collapse(Tail(s))
       ELSE <<Head(s)>> \o Collapse(Tail(s))

RECURSIVE LStrip(_)
LStrip(s) ==
  IF s # <<>> /\ Head(s) \in SpaceChars THEN LStrip(Tail(s)) ELSE s

RECURSIVE RStrip(_)
RStrip(s) ==
  IF s # <<>> /\ s[Len(s)] \in SpaceChars
  THEN RStrip(SubSeq(s, 1, Len(s) - 1)) ELSE s

sanitize_filename(filename) ==
  LET a == [i \in DOMAIN filename |->
              IF filename[i] \in IllegalChars THEN "_" ELSE filename[i]]
      b == [i \in DOMAIN a |-> IF a[i] \in {"\n", "\r"} THEN " " ELSE a[i]]
  IN RStrip(LStrip(Collapse(b)))

\* ----------------------------------------------------------- get_short_hash
\* md5(data).hexdigest()[:6]: the contents are numbered, and the digest
\* prefix of content c is entry c + 1 of this table; equal contents have
\* equal prefixes, the different contents of the model different ones.
HexPrefixes == <<"9e107d", "e4d909", "d41d8c", "0cc175">>
get_short_hash(data) == HexPrefixes[data + 1]

\* ------------------------------------------------------------- constants
BASE_URL == "https://www.smwcentral.net/ajax.php?a=getsectionlist&s=smwhacks"

\* a dict keeps insertion order: the map is a sequence of entries
DIFFICULTY_MAP ==
  << [key |-> "newcomer", code |-> "diff_1", label |-> "Newcomer"],
     [key |-> "casual", code |-> "diff_2", label |-> "Casual"],
     [key |-> "intermediate", code |-> "diff_3", label |-> "Intermediate"],
     [key |-> "advanced", code |-> "diff_4", label |-> "Advanced"],
     [key |-> "expert", code |-> "diff_5", label |-> "Expert"],
     [key |-> "master", code |-> "diff_6", label |-> "Master"],
     [key |-> "grandmaster", code |-> "diff_7", label |-> "Grandmaster"] >>

build_endpoint_url(difficulty_code, is_awaiting) ==
  IF is_awaiting
  THEN <<BASE_URL, "&u=1", "&f[type][]=kaizo">>
  ELSE <<BASE_URL, "&f[difficulty][]=", difficulty_code, "&f[type][]=kaizo">>

\* os.path.join(dir, name) and os.path.basename(path)
PathJoin(dir, name) == dir \o <<"/">> \o name
Basename(path) == LastSegment(path)

\* main_folder and its three sub-folders (date_str is the token "DATE")
MainFolder(label) == <<"smwcentral-kaizo-archive-", label, "-", "DATE">>
MainPath(label) == PathJoin(<<"base">>, MainFolder(label))
ZipDir(label) == PathJoin(MainPath(label), MainFolder(label) \o <<"-zips">>)
BpsDir(label) == PathJoin(MainPath(label), MainFolder(label) \o <<"-bps">>)
PatchedDir(label) == PathJoin(MainPath(label), MainFolder(label) \o <<"-patched">>)
JsonPath(label) == PathJoin(MainPath(label), MainFolder(label) \o <<"-data.json">>)

\* ----------------------------------------------------------------- inputs
Unknown == Str(<<"Unknown">>)
EmptyDict == [k |-> "dict", type |-> Absent, difficulty |-> Absent, length |-> Absent]
FieldsFull ==
  [k |-> "dict", type |-> Str(<<"Kaizo">>), difficulty |-> Str(<<"Newcomer">>),
   length |-> Str(<<"9", " ", "exits">>)]

UrlPlain == <<"https:", "/", "/", "dl.smwcentral.net", "/", "1", "/", "hack", ".zip">>
UrlUnderscore == <<"https:", "/", "/", "dl.smwcentral.net", "/", "2", "/", "my", "_", "hack", ".zip">>
UrlNoZip == <<"https:", "/", "/", "dl.smwcentral.net", "/", "3", "/", "hack", ".ZIP">>
UrlQuoted == <<"https:", "/", "/", "dl.smwcentral.net", "/", "4", "/", "my", "%20", "hack", ".zip">>
UrlSlash == <<"https:", "/", "/", "dl.smwcentral.net", "/", "5", "/">>

ItemPlain ==
  [name |-> Str(<<"Hack", ":", " ", "One">>),
   authors |-> List(<< [name |-> Str(<<"Ann">>)], [name |-> Str(<<"Bob">>)] >>),
   fields |-> FieldsFull, download_url |-> Str(UrlPlain)]
ItemNoUrl ==
  [name |-> Str(<<"Hack", " ", "Two">>), authors |-> Absent,
   fields |-> Absent, download_url |-> Absent]
ItemNullAuthors ==
  [name |-> Str(<<"Hack", " ", "Three">>), authors |-> Null,
   fields |-> FieldsFull, download_url |-> Str(UrlQuoted)]
ItemNullName ==
  [name |-> Null, authors |-> List(<< [name |-> Absent] >>),
   fields |-> Null, download_url |-> Str(UrlUnderscore)]
ItemNoZip ==
  [name |-> Absent, authors |-> List(<<>>),
   fields |-> EmptyDict, download_url |-> Str(UrlNoZip)]
ItemNullAuthorName ==
  [name |-> Str(<<"Hack", " ", "Six">>), authors |-> List(<< [name |-> Null] >>),
   fields |-> FieldsFull, download_url |-> Str(UrlPlain)]
ItemSlashUrl ==
  [name |-> Str(<<"Hack", " ", "Eight">>), authors |-> List(<< [name |-> Str(<<"Ann">>)] >>),
   fields |-> FieldsFull, download_url |-> Str(UrlSlash)]

\* the items a catalog page may carry
CatalogItems == {ItemPlain, ItemNoUrl, ItemNullAuthors}

\* the items the archive fetcher is called with when it is checked alone
ExtractItems ==
  {ItemPlain, ItemNullAuthors, ItemNullName, ItemNoZip, ItemNullAuthorName,
   ItemSlashUrl}

\* members of a downloaded archive: a name and the number of its content
RunMembers ==
  { [name |-> <<"patch", ".bps">>, content |-> 0],
    [name |-> <<"readme", ".txt">>, content |-> 3] }

MemberPool ==
  { [name |-> <<"patch", ".bps">>, content |-> 0],
    [name |-> <<"dir", "/", "alt", ".BPS">>, content |-> 1],
    [name |-> <<"hard", ".bps">>, content |-> 2],
    [name |-> <<"copy", ".bps">>, content |-> 0],
    [name |-> <<"readme", ".txt">>, content |-> 3],
    [name |-> <<"old", ".bps", ".bak">>, content |-> 0] }

RECURSIVE SeqsUpTo(_, _)
SeqsUpTo(S, n) ==
  IF n = 0 THEN {<<>>}
  ELSE LET shorter == SeqsUpTo(S, n - 1)
       IN shorter \cup {Append(s, x) : s \in {t \in shorter : Len(t) = n - 1}, x \in S}

\* --------------------------------------------------------- format_filename
\* the try block raises exactly when sanitize_filename or .get is applied
\* to None
FormatRaises(item_data) ==
  LET authors == Get(item_data.authors, List(<<>>))
      fields == Get(item_data.fields, EmptyDict)
  IN \/ Get(item_data.name, Unknown).k # "str"
     \/ /\ Truthy(authors)
        /\ \E i \in DOMAIN authors.v : Get(authors.v[i].name, Unknown).k # "str"
     \/ fields.k # "dict"
     \/ /\ fields.k = "dict"
        /\ \/ Get(fields.type, Unknown).k # "str"
           \/ Get(fields.difficulty, Unknown).k # "str"
           \/ Get(fields.length, Unknown).k # "str"

format_filename(item_data, original_filename) ==
  IF FormatRaises(item_data)
  THEN sanitize_filename(Unquote(original_filename))
  ELSE
    LET name == sanitize_filename(Get(item_data.name, Unknown).v)
        authors == Get(item_data.authors, List(<<>>))
        author_names ==
          [i \in DOMAIN authors.v |->
             sanitize_filename(Get(authors.v[i].name, Unknown).v)]
        authors_str ==
          IF Truthy(authors) THEN Join(<<" ", "&", " ">>, author_names)
          ELSE <<"Unknown">>
        fields == Get(item_data.fields, EmptyDict)
        hack_type == sanitize_filename(Get(fields.type, Unknown).v)
        difficulty == sanitize_filename(Get(fields.difficulty, Unknown).v)
        length == sanitize_filename(Get(fields.length, Unknown).v)
        decoded_original == Unquote(original_filename)
        parts == <<name, authors_str, hack_type, difficulty, length, decoded_original>>
    IN Join(<<" ", "-", " ">>, parts)

\* ------------------------------------------------ download_and_extract_bps
EmptyResult ==
  [success |-> FALSE, download_success |-> FALSE, bps_count |-> 0,
   bps_files |-> <<>>, error |-> Null, requires_login |-> FALSE]

StatusTok(code) ==
  CASE code = 403 -> "403" [] code = 404 -> "404" [] code = 500 -> "500"
    [] code = 200 -> "200" [] OTHER -> "0"

RequiresLoginError == Str(<<"Requires login (age verification)">>)
HttpError(code) == Str(<<"HTTP ", StatusTok(code)>>)
InvalidZipError == Str(<<"Invalid ZIP file">>)
ExtractionError == Str(<<"Extraction error: ", "e">>)
ProcessingError == Str(<<"Processing error: ", "e">>)

\* What the outside world does during one call:
\*   net      "raise" when requests.get raises, else "response"
\*   status   the HTTP status of the response
\*   save     whether streaming the body into zip_path succeeds
\*   valid    whether zipfile.ZipFile opens the saved file
\*   members  the archive's members, in archive order
\*   failAt   0, or the index of the patch member at which zip_ref.read or
\*            the write of the output file raises
\*   failKind "BadZipFile" (bad CRC of a member) or "Exception"
NoArchive(net, status, save) ==
  [net |-> net, status |-> status, save |-> save, valid |-> FALSE,
   members |-> <<>>, failAt |-> 0, failKind |-> "none"]

\* variant of IsBps: the suffix is compared as written
IsBpsExact(m) == EndsWith(m.name, ".bps")

\* line 277: m.lower().endswith('.bps')
IsBps(m) == EndsWith(Lower(m.name), ".bps")
BpsMembers(members) == SelectSeq(members, IsBps)

DownloadEnvsOver(Archives) ==
  {NoArchive("raise", 0, FALSE)}
    \cup {NoArchive("response", s, FALSE) : s \in {403, 404, 200}}
    \cup {NoArchive("response", 200, TRUE)}
    \cup {[net |-> "response", status |-> 200, save |-> TRUE, valid |-> TRUE,
           members |-> a, failAt |-> 0, failKind |-> "none"] : a \in Archives}
    \cup UNION {{[net |-> "response", status |-> 200, save |-> TRUE, valid |-> TRUE,
                  members |-> a, failAt |-> j, failKind |-> fk] :
                   j \in 1..Len(BpsMembers(a)), fk \in {"BadZipFile", "Exception"}} :
                a \in Archives}

\* the archives met during a whole run hold their patches first and at most
\* one other file; the archive fetcher checked alone gets every order
RunArchives ==
  {a \in SeqsUpTo(RunMembers, MaxMembers) :
     \A i \in DOMAIN a : ~IsBps(a[i]) => i = Len(a)}
RunEnvs == DownloadEnvsOver(RunArchives)
DownloadEnvs == DownloadEnvsOver(SeqsUpTo(MemberPool, MaxMembers))

\* variant of NewBpsName: the hash is left out once an earlier call has
\* produced patch files
NewBpsNameAfter(base_name, decoded_filename, count, bps_content) ==
  IF count = 1 \/ result.bps_files # <<>>
  THEN Replace(base_name, decoded_filename,
               Replace(decoded_filename, <<".zip">>, <<".bps">>))
  ELSE Replace(base_name, decoded_filename,
               Replace(decoded_filename, <<".zip">>,
                       <<"_", get_short_hash(bps_content), ".bps">>))

\* lines 291-299: the generated name of one patch member
NewBpsName(base_name, decoded_filename, count, bps_content) ==
  IF count = 1
  THEN Replace(base_name, decoded_filename,
               Replace(decoded_filename, <<".zip">>, <<".bps">>))
  ELSE Replace(base_name, decoded_filename,
               Replace(decoded_filename, <<".zip">>,
                       <<"_", get_short_hash(bps_content), ".bps">>))

\* the outcome dict on each way out of the function
HttpFailureResult(status) == [EmptyResult EXCEPT !.error = HttpError(status)]

\* variant of DeniedResult: 403 is handled like any other status
DeniedResultGeneric == HttpFailureResult(403)

\* lines 255-259
DeniedResult ==
  [EmptyResult EXCEPT !.requires_login = TRUE, !.error = RequiresLoginError]
ProcessingFailureResult == [EmptyResult EXCEPT !.error = ProcessingError]
DownloadedResult == [EmptyResult EXCEPT !.download_success = TRUE]

\* variant of InvalidZipResult: a bad archive takes the download flag back
InvalidZipResultUndone(r) ==
  [r EXCEPT !.error = InvalidZipError, !.download_success = FALSE]

\* lines 312-314
InvalidZipResult(r) == [r EXCEPT !.error = InvalidZipError]

\* variant of ExtractionErrorResult: the files extracted before the failure
\* are counted
ExtractionErrorResultCounted(r) ==
  [r EXCEPT !.error = ExtractionError, !.bps_count = Len(r.bps_files)]

\* lines 315-317
ExtractionErrorResult(r) == [r EXCEPT !.error = ExtractionError]

\* variant of NoBpsResult: an archive without patches is reported as an error
NoBpsResultFailure(r) == [r EXCEPT !.error = Str(<<"No BPS files">>)]

\* lines 279-282
NoBpsResult(r) == [r EXCEPT !.success = TRUE]
ExtractedResult(r) == [r EXCEPT !.bps_count = Len(r.bps_files), !.success = TRUE]

\* Returns the outcome dict and a trace of the call: io.env is what the world
\* did, io.saved whether the archive was written to zip_path, io.opened
\* whether zipfile.ZipFile was called on it, io.writes the patch files
\* written, in order, each with its path, its member name and its content.
download_and_extract_bps(item_data, download_url, zip_dir, bps_dir, env) ==
  LET original_filename == LastSegment(download_url)
      decoded_filename == Unquote(original_filename)
      base_name == format_filename(item_data, original_filename)
      zip_path == PathJoin(zip_dir, decoded_filename)
      bps_members == BpsMembers(env.members)
      count == Len(bps_members)
      BpsPath(i) ==
        PathJoin(bps_dir, NewBpsName(base_name, decoded_filename, count,
                                     bps_members[i].content))
      done == IF env.failAt \in 1..count THEN env.failAt - 1 ELSE count
      bps_files == [i \in 1..done |-> BpsPath(i)]
      writes == [i \in 1..done |->
                   [path |-> BpsPath(i), member |-> bps_members[i].name,
                    content |-> bps_members[i].content]]
      io0 == [env |-> env, saved |-> FALSE, opened |-> FALSE, writes |-> <<>>]
  IN
  IF env.net = "raise"
  THEN [result |-> ProcessingFailureResult, io |-> io0]
  ELSE IF env.status = 403
  THEN [result |-> DeniedResult, io |-> io0]
  ELSE IF env.status # 200
  THEN [result |-> HttpFailureResult(env.status), io |-> io0]
  ELSE IF decoded_filename = <<>> \/ ~env.save
  \* open(zip_path, 'wb') on a directory, or a failed stream or write
  THEN [result |-> ProcessingFailureResult, io |-> io0]
  ELSE IF ~env.valid
  THEN [result |-> InvalidZipResult(DownloadedResult),
        io |-> [io0 EXCEPT !.saved = TRUE, !.opened = TRUE]]
  ELSE IF count = 0
  THEN [result |-> NoBpsResult(DownloadedResult),
        io |-> [io0 EXCEPT !.saved = TRUE, !.opened = TRUE]]
  ELSE
    LET filled == [DownloadedResult EXCEPT !.bps_files = bps_files]
    IN [result |-> IF env.failAt \in 1..count
                   THEN IF env.failKind = "BadZipFile"
                        THEN InvalidZipResult(filled)
                        ELSE ExtractionErrorResult(filled)
                   ELSE ExtractedResult(filled),
        io |-> [io0 EXCEPT !.saved = TRUE, !.opened = TRUE, !.writes = writes]]

\* ----------------------------------------------------------- patch_bps_file
\* rc is what subprocess.run does: "zero", "nonzero" exit status, or "raise"
PatchRuns == {"zero", "nonzero", "raise"}

PatchOutputPath(bps_path, patched_dir) ==
  PathJoin(patched_dir, Replace(Basename(bps_path), <<".bps">>, <<".smc">>))

patch_bps_file(bps_path, patched_dir, rc) == rc = "zero"

\* ------------------------------------------------------------ the catalog
Digits == <<"1", "2", "3", "4", "5", "6", "7", "8", "9">>

\* the cursor a page of the catalog hands out for the page after it
NextPageUrl(url, page) == url \o <<"&n=", Digits[page + 1]>>

\* What the catalog server does with one page request:
\*   net    "raise" when requests.get raises, else "response"
\*   status the HTTP status
\*   json   whether response.json() parses the body
\*   data   the body's "data" entry, next_page_url its cursor entry
NoPage(net, status) ==
  [net |-> net, status |-> status, json |-> FALSE, data |-> Absent,
   next_page_url |-> Absent]

PageResponses(url, page, room, more) ==
  LET cursors == {Absent, Null, Str(<<>>)}
                   \cup (IF more THEN {Str(NextPageUrl(url, page))} ELSE {})
      datas == {Absent, Null} \cup {List(d) : d \in SeqsUpTo(CatalogItems, room)}
  IN {NoPage("raise", 0), NoPage("response", 403), NoPage("response", 500),
      NoPage("response", 200)}
       \cup {[net |-> "response", status |-> 200, json |-> TRUE, data |-> d,
              next_page_url |-> c] : d \in datas, c \in cursors}

\* lines 171-175: the page is accepted when the request returned 200, the
\* body parsed and all_items.extend(items) did not raise
PageOk(resp) ==
  /\ resp.net = "response"
  /\ resp.status = 200
  /\ resp.json
  /\ Get(resp.data, List(<<>>)).k = "list"

\* variant of Extend: the new page goes in front of the accumulator
ExtendFront(list, items) == items \o list

\* line 175: all_items.extend(items)
Extend(list, items) == list \o items

\* variant of FetchStep: a failed page throws the accumulator away
FetchStepDiscard(s, resp) ==
  IF PageOk(resp)
  THEN [all_items |-> Extend(s.all_items, Get(resp.data, List(<<>>)).v),
        next_url |-> Get(resp.next_page_url, Null),
        page_num |-> s.page_num + 1,
        running |-> Truthy(Get(resp.next_page_url, Null))]
  ELSE [s EXCEPT !.running = FALSE, !.all_items = <<>>]

\* lines 170-186: one iteration of the loop of fetch_all_data on the loop
\* state s; running is whether the loop goes on
FetchStep(s, resp) ==
  IF PageOk(resp)
  THEN [all_items |-> Extend(s.all_items, Get(resp.data, List(<<>>)).v),
        next_url |-> Get(resp.next_page_url, Null),
        page_num |-> s.page_num + 1,
        running |-> Truthy(Get(resp.next_page_url, Null))]
  ELSE [s EXCEPT !.running = FALSE]

\* what a page request leaves in the request log: the URL asked, whether
\* the page was accepted and, if it was, the items and the cursor read from it
LogEntry(url, resp) ==
  [url |-> url, good |-> PageOk(resp),
   items |-> IF PageOk(resp) THEN Get(resp.data, List(<<>>)).v ELSE <<>>,
   next_page_url |-> IF PageOk(resp) THEN resp.next_page_url ELSE Absent]

\* ---------------------------------------------------------------- main()
ZeroStats ==
  [total_hacks |-> 0, downloaded |-> 0, failed_downloads |-> 0,
   requires_login |-> 0, total_bps |-> 0, patched |-> 0, failed_patches |-> 0,
   login_required_hacks |-> <<>>, failed_hacks |-> <<>>]

\* variant of DictSet: a new key goes in front of the older ones
DictSetFront(d, key, value) ==
  IF \E i \in DOMAIN d : d[i].key = key
  THEN [i \in DOMAIN d |-> IF d[i].key = key THEN [key |-> key, value |-> value] ELSE d[i]]
  ELSE <<[key |-> key, value |-> value]>> \o d

\* d[key] = value on an insertion-ordered dict
DictSet(d, key, value) ==
  IF \E i \in DOMAIN d : d[i].key = key
  THEN [i \in DOMAIN d |-> IF d[i].key = key THEN [key |-> key, value |-> value] ELSE d[i]]
  ELSE Append(d, [key |-> key, value |-> value])

\* lines 425-436: the selected endpoints, in DIFFICULTY_MAP order, the
\* awaiting-moderation endpoint last
Selected(a) ==
  LET Chosen(e) == a.all \/ e.key \in a.flags
      picked == SelectSeq(DIFFICULTY_MAP, Chosen)
  IN [i \in DOMAIN picked |->
        [url |-> build_endpoint_url(picked[i].code, FALSE),
         label |-> LowerTok(picked[i].label)]]
     \o (IF a.awaiting
         THEN << [url |-> build_endpoint_url("", TRUE), label |-> "awaiting"] >>
         ELSE <<>>)

\* the command lines of the model: --newcomer and --awaiting, each given or
\* not, without --all, and the two local inputs, each present or not
ArgSets ==
  [all : {FALSE},
   flags : SUBSET {DIFFICULTY_MAP[1].key},
   awaiting : BOOLEAN,
   clean_rom : BOOLEAN,
   flips : BOOLEAN]

\* lines 505-506 raise when authors is None or an author's name is None
AuthorNamesRaises(item) ==
  LET authors == Get(item.authors, List(<<>>))
  IN \/ authors.k # "list"
     \/ \E i \in DOMAIN authors.v : Get(authors.v[i].name, Unknown).k # "str"

AuthorNames(item) ==
  LET authors == Get(item.authors, List(<<>>))
  IN Join(<<" ", "&", " ">>,
          [i \in DOMAIN authors.v |-> Get(authors.v[i].name, Unknown).v])

\* variant of Classify: every downloaded item counts one patch
ClassifyOnePatch(st, res, hack_name, author_names, download_url) ==
  IF res.requires_login
  THEN [st EXCEPT !.requires_login = @ + 1,
                  !.login_required_hacks =
                     Append(@, [name |-> hack_name, authors |-> author_names,
                                url |-> download_url])]
  ELSE IF ~res.download_success
  THEN [st EXCEPT !.failed_downloads = @ + 1,
                  !.failed_hacks =
                     Append(@, [name |-> hack_name, error |-> res.error])]
  ELSE [st EXCEPT !.downloaded = @ + 1,
                  !.total_bps = @ + 1]

\* variant of Classify: the download-success test comes first, so an
\* access-denied item lands in the failure bucket
ClassifyFailedFirst(st, res, hack_name, author_names, download_url) ==
  IF ~res.download_success
  THEN [st EXCEPT !.failed_downloads = @ + 1,
                  !.failed_hacks =
                     Append(@, [name |-> hack_name, error |-> res.error])]
  ELSE IF res.requires_login
  THEN [st EXCEPT !.requires_login = @ + 1,
                  !.login_required_hacks =
                     Append(@, [name |-> hack_name, authors |-> author_names,
                                url |-> download_url])]
  ELSE [st EXCEPT !.downloaded = @ + 1,
                  !.total_bps = @ + res.bps_count]

\* variant of Classify: an access-denied item is counted as a failed
\* download as well
ClassifyDeniedTwice(st, res, hack_name, author_names, download_url) ==
  IF res.requires_login
  THEN [st EXCEPT !.requires_login = @ + 1,
                  !.failed_downloads = @ + 1,
                  !.login_required_hacks =
                     Append(@, [name |-> hack_name, authors |-> author_names,
                                url |-> download_url])]
  ELSE IF ~res.download_success
  THEN [st EXCEPT !.failed_downloads = @ + 1,
                  !.failed_hacks =
                     Append(@, [name |-> hack_name, error |-> res.error])]
  ELSE [st EXCEPT !.downloaded = @ + 1,
                  !.total_bps = @ + res.bps_count]

\* lines 511-527: fold one outcome into the partition statistics
Classify(st, res, hack_name, author_names, download_url) ==
  IF res.requires_login
  THEN [st EXCEPT !.requires_login = @ + 1,
                  !.login_required_hacks =
                     Append(@, [name |-> hack_name, authors |-> author_names,
                                url |-> download_url])]
  ELSE IF ~res.download_success
  THEN [st EXCEPT !.failed_downloads = @ + 1,
                  !.failed_hacks =
                     Append(@, [name |-> hack_name, error |-> res.error])]
  ELSE [st EXCEPT !.downloaded = @ + 1,
                  !.total_bps = @ + res.bps_count]

NoIo ==
  [env |-> NoArchive("none", 0, FALSE), saved |-> FALSE, opened |-> FALSE,
   writes |-> <<>>]

label == endpoints[ep].label

Init ==
  /\ pc = "start"
  /\ args \in ArgSets
  /\ endpoints = <<>>
  /\ ep = 0
  /\ global_stats = <<>>
  /\ stats = ZeroStats
  /\ next_url = Null
  /\ page_num = 1
  /\ all_items = <<>>
  /\ idx = 0
  /\ result = EmptyResult
  /\ patch_i = 0
  /\ patches_success = 0
  /\ patches_failed = 0
  /\ snapshot = <<>>
  /\ report = Null
  /\ page_log = <<>>
  /\ served = 0
  /\ unpacked = 0
  /\ io = NoIo
  /\ outcomes = <<>>
  /\ calls = <<>>
  /\ pending = "none"
  /\ previous = EmptyResult

\* variant of Start: the two local inputs are not looked at
StartUnchecked ==
  /\ pc = "start"
  /\ endpoints' = Selected(args)
  /\ pc' = IF Selected(args) = <<>> THEN "exit0" ELSE "partition"
  /\ UNCHANGED <<args, ep, global_stats, stats, next_url, page_num, all_items,
                 idx, result, patch_i, patches_success, patches_failed,
                 snapshot, report, page_log, served, unpacked, io, outcomes,
                 calls, pending, previous>>

\* lines 424-453
Start ==
  /\ pc = "start"
  /\ endpoints' = Selected(args)
  /\ pc' = IF Selected(args) = <<>> THEN "exit0"
           ELSE IF ~args.clean_rom THEN "exit1"
           ELSE IF ~args.flips THEN "exit1"
           ELSE "partition"
  /\ UNCHANGED <<args, ep, global_stats, stats, next_url, page_num, all_items,
                 idx, result, patch_i, patches_success, patches_failed,
                 snapshot, report, page_log, served, unpacked, io, outcomes,
                 calls, pending, previous>>

\* lines 456-483 and 164-166
BeginPartition ==
  /\ pc = "partition"
  /\ ep < Len(endpoints)
  /\ ep' = ep + 1
  /\ stats' = ZeroStats
  /\ all_items' = <<>>
  /\ next_url' = Str(endpoints[ep + 1].url)
  /\ page_num' = 1
  /\ page_log' = <<>>
  /\ outcomes' = <<>>
  /\ pc' = "fetch"
  /\ UNCHANGED <<args, endpoints, global_stats, idx, result, patch_i,
                 patches_success, patches_failed, snapshot, report, served, unpacked, io,
                 calls, pending, previous>>

\* lines 168-186: one iteration of the while loop, with the loop test that
\* follows it; a failed page leaves the loop through break
FetchPage ==
  /\ pc = "fetch"
  /\ \E resp \in PageResponses(endpoints[ep].url, page_num, MaxItems - served,
                                page_num < MaxPages) :
       LET s == FetchStep([all_items |-> all_items, next_url |-> next_url,
                           page_num |-> page_num, running |-> TRUE], resp)
       IN /\ page_log' = Append(page_log, LogEntry(next_url, resp))
          /\ all_items' = s.all_items
          /\ next_url' = s.next_url
          /\ page_num' = s.page_num
          /\ served' = served + (Len(s.all_items) - Len(all_items))
          /\ pending' = IF PageOk(resp) THEN "none" ELSE "page"
          /\ pc' = IF s.running THEN "fetch" ELSE "fetched"
  /\ UNCHANGED <<args, endpoints, ep, global_stats, stats, idx, result, patch_i,
                 patches_success, patches_failed, snapshot, report, unpacked,
                 io, outcomes,
                 calls, previous>>

\* lines 188-189 and 486-490: fetch_all_data returns (its locals are gone),
\* save_json_data writes the snapshot or logs its failure
SaveJson ==
  /\ pc = "fetched"
  /\ \E written \in BOOLEAN :
       snapshot' = IF written THEN DictSet(snapshot, JsonPath(label), all_items)
                   ELSE snapshot
  /\ idx' = 0
  /\ next_url' = Null
  /\ page_num' = 1
  /\ page_log' = <<>>
  /\ pc' = "items"
  /\ UNCHANGED <<args, endpoints, ep, global_stats, stats, all_items, result,
                 patch_i, patches_success, patches_failed, report, served,
                 unpacked, io, outcomes,
                 calls, pending, previous>>

\* variant of item: the list is walked from its end
itemFromEnd == all_items[Len(all_items) - idx]

\* line 493: the item of the current iteration
item == all_items[idx + 1]

\* what the world did to an item, read off the effects of its fetch
OutcomeKind(e) ==
  IF e.env.net = "response" /\ e.env.status = 403 THEN "login"
  ELSE IF e.saved THEN "downloaded"
  ELSE "failed"

\* variant of SkipItem: the item is counted before the URL is looked at
SkipItemCounted ==
  /\ pc = "items"
  /\ idx < Len(all_items)
  /\ ~Truthy(Get(item.download_url, Null))
  /\ idx' = idx + 1
  /\ stats' = [stats EXCEPT !.total_hacks = @ + 1]
  /\ outcomes' = Append(outcomes, [pos |-> idx + 1, kind |-> "skipped",
                                   bps_count |-> 0, files |-> 0,
                                   error |-> Null, ok |-> 0, bad |-> 0])
  /\ UNCHANGED <<pc, args, endpoints, ep, global_stats, next_url,
                 page_num, all_items, result, patch_i, patches_success,
                 patches_failed, snapshot, report, page_log, served, unpacked, io,
                 calls, pending, previous>>

\* lines 493-499: an item without a download URL is passed over
SkipItem ==
  /\ pc = "items"
  /\ idx < Len(all_items)
  /\ ~Truthy(Get(item.download_url, Null))
  /\ idx' = idx + 1
  /\ outcomes' = Append(outcomes, [pos |-> idx + 1, kind |-> "skipped",
                                   bps_count |-> 0, files |-> 0,
                                   error |-> Null, ok |-> 0, bad |-> 0])
  /\ UNCHANGED <<pc, args, endpoints, ep, global_stats, stats, next_url,
                 page_num, all_items, result, patch_i, patches_success,
                 patches_failed, snapshot, report, page_log, served, unpacked, io,
                 calls, pending, previous>>

\* lines 493-537: count the item, build the author string (outside any try,
\* so an exception there ends the run), fetch and classify
ProcessItem ==
  /\ pc = "items"
  /\ idx < Len(all_items)
  /\ Truthy(Get(item.download_url, Null))
  /\ IF AuthorNamesRaises(item)
     THEN /\ stats' = [stats EXCEPT !.total_hacks = @ + 1]
          /\ pc' = "crashed"
          /\ UNCHANGED <<result, io, outcomes, patch_i, patches_success,
                         patches_failed, unpacked, calls, pending>>
     ELSE \E env \in {e \in RunEnvs : Len(e.members) <= MaxMembers - unpacked} :
            LET hack_name == Get(item.name, Unknown)
                download_url == Get(item.download_url, Null)
                counted == [stats EXCEPT !.total_hacks = @ + 1]
            IN \E r \in {download_and_extract_bps(item, download_url.v,
                                                  ZipDir(label), BpsDir(label),
                                                  env)} :
               /\ result' = r.result
               /\ io' = r.io
               /\ unpacked' = unpacked + Len(env.members)
               /\ stats' = Classify(counted, r.result, hack_name,
                                    AuthorNames(item), download_url)
               /\ outcomes' = Append(outcomes,
                                [pos |-> idx + 1, kind |-> OutcomeKind(r.io),
                                 bps_count |-> r.result.bps_count,
                                 files |-> Len(r.result.bps_files),
                                 error |-> IF OutcomeKind(r.io) = "failed"
                                           THEN r.result.error ELSE Null,
                                 ok |-> 0, bad |-> 0])
               /\ patch_i' = 0
               /\ calls' = <<>>
               /\ pending' = "item"
               /\ patches_success' = 0
               /\ patches_failed' = 0
               /\ pc' = IF ~r.result.requires_login /\ r.result.download_success
                        THEN "patch" ELSE "delay"
  /\ UNCHANGED <<args, endpoints, ep, global_stats, next_url, page_num,
                 all_items, idx, snapshot, report, page_log, served,
                 previous>>

\* variant of PatchFile: the first failed patch ends the loop
PatchFileStopOnFailure ==
  /\ pc = "patch"
  /\ patch_i < Len(result.bps_files)
  /\ \E rc \in PatchRuns :
       /\ calls' = Append(calls, [path |-> result.bps_files[patch_i + 1],
                                  rc |-> rc])
       /\ IF patch_bps_file(result.bps_files[patch_i + 1], PatchedDir(label), rc)
          THEN /\ patches_success' = patches_success + 1
               /\ outcomes' = [outcomes EXCEPT ![Len(outcomes)].ok = @ + 1]
               /\ UNCHANGED patches_failed
          ELSE /\ patches_failed' = patches_failed + 1
               /\ outcomes' = [outcomes EXCEPT ![Len(outcomes)].bad = @ + 1]
               /\ UNCHANGED patches_success
  /\ patch_i' = IF patches_failed' > patches_failed
                THEN Len(result.bps_files) ELSE patch_i + 1
  /\ UNCHANGED <<pc, args, endpoints, ep, global_stats, stats, next_url,
                 page_num, all_items, idx, result, snapshot, report, page_log,
                 served, unpacked, io, pending, previous>>

\* lines 539-543: one iteration of the patch loop
PatchFile ==
  /\ pc = "patch"
  /\ patch_i < Len(result.bps_files)
  /\ \E rc \in PatchRuns :
       /\ calls' = Append(calls, [path |-> result.bps_files[patch_i + 1],
                                  rc |-> rc])
       /\ IF patch_bps_file(result.bps_files[patch_i + 1], PatchedDir(label), rc)
          THEN /\ patches_success' = patches_success + 1
               /\ outcomes' = [outcomes EXCEPT ![Len(outcomes)].ok = @ + 1]
               /\ UNCHANGED patches_failed
          ELSE /\ patches_failed' = patches_failed + 1
               /\ outcomes' = [outcomes EXCEPT ![Len(outcomes)].bad = @ + 1]
               /\ UNCHANGED patches_success
  /\ patch_i' = patch_i + 1
  /\ UNCHANGED <<pc, args, endpoints, ep, global_stats, stats, next_url,
                 page_num, all_items, idx, result, snapshot, report, page_log,
                 served, unpacked, io, pending, previous>>

\* lines 545-552: the patch loop is over, its counts are folded in, then
\* time.sleep(0.5) and the next iteration; the locals of the iteration are
\* dead from here on and are reset
PatchesDone ==
  /\ pc = "patch"
  /\ patch_i = Len(result.bps_files)
  /\ stats' = [stats EXCEPT !.patched = @ + patches_success,
                            !.failed_patches = @ + patches_failed]
  /\ idx' = idx + 1
  /\ result' = EmptyResult
  /\ io' = NoIo
  /\ patch_i' = 0
  /\ patches_success' = 0
  /\ patches_failed' = 0
  /\ calls' = <<>>
  /\ pending' = "none"
  /\ pc' = "items"
  /\ UNCHANGED <<args, endpoints, ep, global_stats, next_url, page_num,
                 all_items, snapshot, report, page_log, served, unpacked, outcomes,
                 previous>>

\* line 552 after the access-denied and failed-download branches:
\* time.sleep(0.5) and the next iteration
ItemDelay ==
  /\ pc = "delay"
  /\ idx' = idx + 1
  /\ result' = EmptyResult
  /\ io' = NoIo
  /\ patch_i' = 0
  /\ patches_success' = 0
  /\ patches_failed' = 0
  /\ calls' = <<>>
  /\ pending' = "none"
  /\ pc' = "items"
  /\ UNCHANGED <<args, endpoints, ep, global_stats, stats, next_url, page_num,
                 all_items, snapshot, report, page_log, served, unpacked, outcomes,
                 previous>>

\* lines 554-565
FinalizePartition ==
  /\ pc = "items"
  /\ idx = Len(all_items)
  /\ global_stats' = DictSet(global_stats, label, stats)
  /\ pc' = "partition"
  /\ UNCHANGED <<args, endpoints, ep, stats, next_url, page_num, all_items,
                 idx, result, patch_i, patches_success, patches_failed,
                 snapshot, report, page_log, served, unpacked, io, outcomes,
                 calls, pending, previous>>

\* lines 567-588: generate_summary_report writes the report or logs its
\* failure
GenerateReport ==
  /\ pc = "partition"
  /\ ep = Len(endpoints)
  /\ \E written \in BOOLEAN :
       report' = IF written THEN List(global_stats) ELSE report
  /\ pc' = "done"
  /\ UNCHANGED <<args, endpoints, ep, global_stats, stats, next_url, page_num,
                 all_items, idx, result, patch_i, patches_success,
                 patches_failed, snapshot, page_log, served, unpacked, io, outcomes,
                 calls, pending, previous>>

Next ==
  \/ Start
  \/ BeginPartition
  \/ FetchPage
  \/ SaveJson
  \/ SkipItem
  \/ ProcessItem
  \/ PatchFile
  \/ PatchesDone
  \/ ItemDelay
  \/ FinalizePartition
  \/ GenerateReport

Spec == Init /\ [][Next]_vars

\* main() is one sequential thread: whenever a step is possible, a step is
\* taken (every external call returns)
FairSpec == Spec /\ WF_vars(Next)

\* ------------------------------------- the archive fetcher checked alone
InitExtract ==
  /\ pc = "call"
  /\ args = [all |-> FALSE, flags |-> {"newcomer"}, awaiting |-> FALSE,
             clean_rom |-> TRUE, flips |-> TRUE]
  /\ endpoints = Selected(args)
  /\ ep = 1
  /\ global_stats = <<>>
  /\ stats = ZeroStats
  /\ next_url = Null
  /\ page_num = 1
  /\ all_items \in {<<i>> : i \in ExtractItems}
  /\ idx = 0
  /\ result = EmptyResult
  /\ patch_i = 0
  /\ patches_success = 0
  /\ patches_failed = 0
  /\ snapshot = <<>>
  /\ report = Null
  /\ page_log = <<>>
  /\ served = 1
  /\ unpacked = 0
  /\ io = NoIo
  /\ outcomes = <<>>
  /\ calls = <<>>
  /\ pending = "none"
  /\ previous = EmptyResult

\* one call of download_and_extract_bps on the item
ExtractCall ==
  /\ pc = "call"
  /\ \E env \in DownloadEnvs :
       LET r == download_and_extract_bps(item, item.download_url.v,
                                         ZipDir(label), BpsDir(label), env)
       IN /\ result' = r.result
          /\ io' = r.io
  /\ pc' = "returned"
  /\ UNCHANGED <<args, endpoints, ep, global_stats, stats, next_url, page_num,
                 all_items, idx, patch_i, patches_success, patches_failed,
                 snapshot, report, page_log, served, unpacked, outcomes,
                 calls, pending, previous>>

\* a second call on the same item, URL and archive, the world doing what it
\* did the first time
ExtractAgain ==
  /\ pc = "returned"
  /\ previous' = result
  /\ \E r \in {download_and_extract_bps(item, item.download_url.v,
                                        ZipDir(label), BpsDir(label), io.env)} :
       /\ result' = r.result
       /\ io' = r.io
  /\ pc' = "repeated"
  /\ UNCHANGED <<args, endpoints, ep, global_stats, stats, next_url, page_num,
                 all_items, idx, patch_i, patches_success, patches_failed,
                 snapshot, report, page_log, served, unpacked, outcomes,
                 calls, pending>>

NextExtract == ExtractCall \/ ExtractAgain

SpecExtract == InitExtract /\ [][NextExtract]_vars

\* ==================================================================
\* Properties
\* ==================================================================
\* fetch_all_data has returned and its result is not yet consumed
FetchReturned == pc = "fetched"

\* a logged page was not accepted: no 200, no parseable body, or a body
\* whose data entry is not an array
PageFailed(e) == ~e.good
PageItems(e) == e.items
LogItems == Concat([i \in DOMAIN page_log |-> PageItems(page_log[i])])
AllPagesGood == \A i \in DOMAIN page_log : ~PageFailed(page_log[i])

\* the first request goes to the initial URL, each later one to the cursor
\* of the page before it
CursorChain ==
  /\ page_log # <<>>
  /\ page_log[1].url = Str(endpoints[ep].url)
  /\ \A i \in 1..(Len(page_log) - 1) :
       page_log[i + 1].url = page_log[i].next_page_url

\* C1 as stated: with every page answered 200 and parseable, fetch_all_data
\* returns the concatenation of the pages' data arrays in request order,
\* starting at the initial URL and following next_page_url, and the page it
\* stops at is the first one whose next_page_url is absent or null.
C1_StopsOnlyAtNull ==
  (FetchReturned /\ AllPagesGood) =>
    /\ all_items = LogItems
    /\ CursorChain
    /\ \A i \in DOMAIN page_log :
         (page_log[i].next_page_url \in {Absent, Null}) <=> (i = Len(page_log))

\* C1 amended: the same, but the page it stops at is the first one whose
\* next_page_url is absent, null or empty (any falsy value).
C1_ConcatenatesPages ==
  (FetchReturned /\ AllPagesGood) =>
    /\ all_items = LogItems
    /\ CursorChain
    /\ \A i \in DOMAIN page_log :
         ~Truthy(Get(page_log[i].next_page_url, Null)) <=> (i = Len(page_log))

C1_Witness ==
  /\ FetchReturned
  /\ AllPagesGood
  /\ Len(page_log) = 2
  /\ PageItems(page_log[1]) # <<>>
  /\ PageItems(page_log[2]) # <<>>
  /\ PageItems(page_log[1]) # PageItems(page_log[2])

\* C2: a page that fails (non-200, request error, parse error) is the last
\* request of the partition - it is not retried and nothing is fetched after
\* it - and fetch_all_data returns exactly the items of the pages accepted
\* before it.
C2_StopsAtFailure ==
  (FetchReturned /\ ~AllPagesGood) =>
    /\ \A i \in DOMAIN page_log : PageFailed(page_log[i]) => i = Len(page_log)
    /\ all_items = LogItems
    /\ CursorChain

C2_Witness ==
  /\ FetchReturned
  /\ Len(page_log) = 2
  /\ ~PageFailed(page_log[1])
  /\ PageFailed(page_log[2])
  /\ all_items # <<>>

\* the partition started last has been finalized
Finalized == pc \in {"partition", "done"} /\ ep > 0
FinalStats == global_stats[ep].value

RECURSIVE Sum(_)
Sum(ns) == IF ns = <<>> THEN 0 ELSE Head(ns) + Sum(Tail(ns))

OfKind(kind) == {i \in DOMAIN outcomes : outcomes[i].kind = kind}
HasUrl(i) == Truthy(Get(all_items[i].download_url, Null))
LoginEntry(i) ==
  [name |-> Get(all_items[i].name, Unknown),
   authors |-> AuthorNames(all_items[i]),
   url |-> all_items[i].download_url]
LoginEntries ==
  LET IsLogin(o) == o.kind = "login"
      denied == SelectSeq(outcomes, IsLogin)
  IN [j \in DOMAIN denied |-> LoginEntry(denied[j].pos)]

Returned == pc \in {"returned", "patch", "delay"}

Denied(e) == e.env.net = "response" /\ e.env.status = 403

\* C4: a download answered 403 yields requires_login, no download_success,
\* no success, no patches and the fixed error text; the archive is neither
\* saved nor opened and no patch file is written.
C4_DeniedOutcome ==
  (Returned /\ Denied(io)) =>
    /\ result = [success |-> FALSE, download_success |-> FALSE, bps_count |-> 0,
                 bps_files |-> <<>>,
                 error |-> Str(<<"Requires login (age verification)">>),
                 requires_login |-> TRUE]
    /\ ~io.saved
    /\ ~io.opened
    /\ io.writes = <<>>

C4_Witness ==
  /\ pc = "returned"
  /\ Denied(io)
  /\ result.requires_login
  /\ item = ItemPlain

\* main() has just fetched and classified an item
ItemStep == pc = "items" /\ pc' \in {"patch", "delay"}

\* the download failed for a reason other than 403
FailedOtherwise(e) == ~Denied(e) /\ ~e.saved

\* C5: an item answered 403 goes to requires_login / login_required_hacks
\* and leaves failed_downloads / failed_hacks alone; an item whose download
\* failed for another reason goes to failed_downloads / failed_hacks and
\* leaves requires_login / login_required_hacks alone.
C5_DeniedKeptApart ==
  [][ItemStep =>
       /\ Denied(io') =>
            /\ stats'.requires_login = stats.requires_login + 1
            /\ stats'.login_required_hacks =
                 Append(stats.login_required_hacks, LoginEntry(idx + 1))
            /\ stats'.failed_downloads = stats.failed_downloads
            /\ stats'.failed_hacks = stats.failed_hacks
       /\ FailedOtherwise(io') =>
            /\ stats'.failed_downloads = stats.failed_downloads + 1
            /\ stats'.failed_hacks =
                 Append(stats.failed_hacks,
                        [name |-> Get(item.name, Unknown), error |-> result'.error])
            /\ stats'.requires_login = stats.requires_login
            /\ stats'.login_required_hacks = stats.login_required_hacks]_vars

C5_Witness ==
  /\ pc = "delay"
  /\ Denied(io)
  /\ stats.requires_login = 1
  /\ stats.failed_downloads = 1
  /\ Len(stats.login_required_hacks) = 1
  /\ Len(stats.failed_hacks) = 1

\* C6 as stated: the generated names of the patch members of one archive
\* are pairwise distinct, so an archive with N > 1 patch members leaves N
\* different paths in bps_files.
C6_NamesDistinct ==
  (Returned /\ result.success /\ Len(BpsMembers(io.env.members)) > 1) =>
    \A i, j \in DOMAIN result.bps_files :
      i # j => result.bps_files[i] # result.bps_files[j]

\* a 200 download whose body was saved and opens as an archive
ValidArchive(e) ==
  e.env.net = "response" /\ e.env.status = 200 /\ e.saved /\ e.env.valid

\* the patch-format members: name ending in .bps in any letter case
PatchSuffixes == {".bps", ".BPS", ".Bps"}
PatchMembers(members) ==
  LET Patch(m) == m.name # <<>> /\ m.name[Len(m.name)] \in PatchSuffixes
  IN SelectSeq(members, Patch)

ExtractedAllPatches ==
  LET wanted == PatchMembers(io.env.members)
  IN /\ Len(io.writes) = Len(wanted)
     /\ \A i \in DOMAIN wanted :
          /\ io.writes[i].member = wanted[i].name
          /\ io.writes[i].content = wanted[i].content
          /\ io.writes[i].path = result.bps_files[i]
     /\ result.success
     /\ result.bps_count = Len(wanted)
     /\ Len(result.bps_files) = Len(wanted)

C8_RunNeverAborts == pc # "crashed"

\* a 200 download whose saved file does not open as an archive
InvalidArchive(e) ==
  e.env.net = "response" /\ e.env.status = 200 /\ e.saved /\ ~e.env.valid

\* C9: a 200 download whose saved file is not a valid archive yields
\* download_success, no success, bps_count 0 and the error 'Invalid ZIP
\* file'; main() counts the item under downloaded only and runs no patch
\* for it.
C9_InvalidArchive ==
  [][/\ (ItemStep /\ InvalidArchive(io')) =>
          /\ result' = [success |-> FALSE, download_success |-> TRUE,
                        bps_count |-> 0, bps_files |-> <<>>,
                        error |-> Str(<<"Invalid ZIP file">>),
                        requires_login |-> FALSE]
          /\ stats' = [stats EXCEPT !.total_hacks = @ + 1, !.downloaded = @ + 1]
          /\ pc' = "patch"
     /\ (pc = "patch" /\ InvalidArchive(io)) =>
          /\ pc' = "items"
          /\ patches_success = 0
          /\ patches_failed = 0
          /\ stats' = stats]_vars

C9_Witness ==
  /\ pc = "patch"
  /\ InvalidArchive(io)
  /\ stats.downloaded = 1

\* a 200 download of a valid archive without a patch-format member
EmptyArchive(e) == ValidArchive(e) /\ PatchMembers(e.env.members) = <<>>

\* C10: a 200 download of a valid archive without patch-format members
\* yields success, download_success, no requires_login, bps_count 0, no
\* bps_files and no error; main() counts it as downloaded, adds nothing to
\* total_bps and records no failure.
C10_EmptyArchive ==
  [][/\ (ItemStep /\ EmptyArchive(io')) =>
          /\ result' = [success |-> TRUE, download_success |-> TRUE,
                        bps_count |-> 0, bps_files |-> <<>>,
                        error |-> Null, requires_login |-> FALSE]
          /\ stats' = [stats EXCEPT !.total_hacks = @ + 1, !.downloaded = @ + 1]
     /\ (pc = "patch" /\ EmptyArchive(io)) =>
          /\ pc' = "items"
          /\ stats' = stats]_vars

C10_Witness ==
  /\ pc = "patch"
  /\ EmptyArchive(io)
  /\ io.env.members # <<>>
  /\ result.success
  /\ stats.downloaded = 1

\* a local input is missing: the base image or the patch tool
InputMissing == ~args.clean_rom \/ ~args.flips

\* nothing of a run has happened: no partition begun, no page requested, no
\* archive fetched, no snapshot, no partition statistics, no report
NothingDone ==
  /\ ep = 0
  /\ page_log = <<>>
  /\ served = 0
  /\ all_items = <<>>
  /\ io = NoIo
  /\ unpacked = 0
  /\ snapshot = <<>>
  /\ stats = ZeroStats
  /\ global_stats = <<>>
  /\ report = Null

\* C11 as stated: with the base image or the patch tool missing the run
\* ends with exit status 1 before any page request, download or partition,
\* and produces no partition statistics and no report.
C11_MissingInputExits1 ==
  InputMissing => (pc \in {"start", "exit1"} /\ NothingDone)

\* C11 amended: the same when at least one partition is selected; with none
\* selected the run ends with exit status 0, also before anything is done.
C11_MissingInputAborts ==
  InputMissing =>
    /\ pc \in {"start", IF Selected(args) = <<>> THEN "exit0" ELSE "exit1"}
    /\ NothingDone

C11_Witness ==
  /\ pc = "exit1"
  /\ args.clean_rom
  /\ ~args.flips
  /\ Len(endpoints) = 2

\* main() is working on the items of the partition begun last
ProcessingItems == pc \in {"items", "patch", "delay", "crashed"}

\* the snapshot file of the current partition holds the given item list
SnapshotHolds(items) ==
  \E i \in DOMAIN snapshot :
    snapshot[i].key = JsonPath(label) /\ snapshot[i].value = items

\* C12 as stated: while the items of a partition are worked on, pagination
\* of that partition is over and the item list it returned is on disk as the
\* partition's JSON snapshot.
C12_SnapshotBeforeItems ==
  ProcessingItems => (page_log = <<>> /\ SnapshotHolds(all_items))

\* the item loop of the partition begun last is running or over
InItemLoop == pc \in {"items", "patch", "delay", "partition", "done"} /\ ep > 0

\* the item of the current iteration is fetched, its patches not yet done
ItemBusy == pc \in {"patch", "delay"}

FailedEntries ==
  LET IsFailed(o) == o.kind = "failed"
      failed == SelectSeq(outcomes, IsFailed)
  IN [j \in DOMAIN failed |->
        [name |-> Get(all_items[failed[j].pos].name, Unknown),
         error |-> failed[j].error]]

\* C13: the items are handled one at a time in list order - the k-th thing
\* that happened in the partition happened to the k-th list entry, and was
\* a download exactly when the entry has a download URL; whenever the next
\* download can start every patch of the items before it has been
\* attempted; login_required_hacks and failed_hacks list their items in
\* catalog order.
C13_CatalogOrder ==
  InItemLoop =>
    /\ Len(outcomes) = idx + (IF ItemBusy THEN 1 ELSE 0)
    /\ \A i \in DOMAIN outcomes :
         /\ outcomes[i].pos = i
         /\ (outcomes[i].kind = "skipped") <=> ~HasUrl(i)
         /\ (i < Len(outcomes) \/ ~ItemBusy) =>
              outcomes[i].ok + outcomes[i].bad = outcomes[i].files
    /\ stats.login_required_hacks = LoginEntries
    /\ stats.failed_hacks = FailedEntries

C13_Witness ==
  /\ pc = "items"
  /\ Len(all_items) = 2
  /\ idx = 2
  /\ outcomes[1].kind = "failed"
  /\ outcomes[2].kind = "failed"
  /\ outcomes[1].error # outcomes[2].error

FailedCalls == {i \in DOMAIN calls : calls[i].rc # "zero"}

\* C14: the patch applier is called once for every path of the item's
\* bps_files, in list order, whatever the earlier calls returned; each call
\* that exits non-zero or raises adds one to the failed patches, each other
\* call one to the successful ones; and when the loop is over every path
\* has had its call and the two counts are in the partition statistics.
C14_EveryPatchAttempted ==
  /\ pc = "patch" =>
       /\ Len(calls) = patch_i
       /\ patch_i <= Len(result.bps_files)
       /\ \A i \in DOMAIN calls : calls[i].path = result.bps_files[i]
       /\ patches_failed = Cardinality(FailedCalls)
       /\ patches_success = patch_i - Cardinality(FailedCalls)
  /\ (InItemLoop /\ ~ItemBusy) =>
       /\ \A i \in DOMAIN outcomes :
            outcomes[i].ok + outcomes[i].bad = outcomes[i].files
       /\ stats.patched = Sum([i \in DOMAIN outcomes |-> outcomes[i].ok])
       /\ stats.failed_patches = Sum([i \in DOMAIN outcomes |-> outcomes[i].bad])

C14_Witness ==
  /\ pc = "patch"
  /\ Len(result.bps_files) = 2
  /\ Len(calls) = 2
  /\ calls[1].rc = "raise"
  /\ calls[2].rc = "zero"
  /\ patches_failed = 1
  /\ patches_success = 1

\* the item loop stands before a list entry without a download URL
AtUrlLessItem == pc = "items" /\ idx < Len(all_items) /\ ~HasUrl(idx + 1)

\* C15: the step main() takes at an item without a download URL goes on to
\* the next item and does nothing else: no download, no extraction, no
\* patch call, and no counter or list of the partition statistics changes.
C15_NoUrlSkipped ==
  [][AtUrlLessItem =>
       /\ idx' = idx + 1
       /\ pc' = "items"
       /\ stats' = stats
       /\ global_stats' = global_stats
       /\ result' = result
       /\ io' = io
       /\ unpacked' = unpacked
       /\ calls' = calls
       /\ patch_i' = patch_i
       /\ patches_success' = patches_success
       /\ patches_failed' = patches_failed
       /\ pending' = pending]_vars

C15_Witness ==
  /\ pc = "items"
  /\ Len(all_items) = 2
  /\ idx = 2
  /\ outcomes[1].kind = "skipped"
  /\ outcomes[2].kind = "downloaded"
  /\ stats.total_hacks = 1

\* C16 as stated: a delay follows every page request and every item
\* download, whatever their result, so a page request is never issued while
\* the page request before it has had no delay, and a download never while
\* the download before it has had none.
C16_DelayAfterEveryRequest ==
  /\ pc = "fetch" => pending # "page"
  /\ (pc = "items" /\ idx < Len(all_items) /\ HasUrl(idx + 1)) => pending # "item"

HashTokens == {HexPrefixes[i] : i \in DOMAIN HexPrefixes}

\* C17 as stated: the generated name of a sole patch member carries no
\* hash; with more than one patch member the name of each ends in "_", the
\* hash prefix of that member's own bytes, and the extension.
C17_HashIffSeveral ==
  (Returned /\ result.success) =>
    LET members == PatchMembers(io.env.members)
    IN \A i \in DOMAIN result.bps_files :
         LET name == result.bps_files[i]
             k == Len(name)
         IN IF Len(members) = 1
            THEN \A j \in DOMAIN name : name[j] \notin HashTokens
            ELSE /\ k >= 3
                 /\ name[k] = ".bps"
                 /\ name[k - 1] = get_short_hash(members[i].content)
                 /\ name[k - 2] = "_"

HoldsFirst(gs, n) ==
  /\ Len(gs) = n
  /\ n <= Len(endpoints)
  /\ \A i \in 1..n : gs[i].key = endpoints[i].label

\* C19: the summary report is generated at most once, as the last step of
\* the run and only when every selected partition has been finalized; a
\* partition's statistics enter the global statistics only at its
\* finalization, when all its items have been handled, as the accumulator's
\* value at that moment, and no entry changes afterwards; the global
\* statistics, and the report written from them, hold exactly one entry per
\* finalized partition, keyed by its label, in selection order.
C19_ReportAfterFinalization ==
  [][ /\ pc # "done"
      /\ \A i \in DOMAIN global_stats :
            /\ i \in DOMAIN global_stats'
            /\ global_stats'[i] = global_stats[i]
      /\ global_stats' # global_stats =>
            /\ pc = "items"
            /\ idx = Len(all_items)
            /\ patch_i = 0 /\ calls = <<>>
            /\ global_stats' = Append(global_stats, [key |-> label, value |-> stats])
            /\ HoldsFirst(global_stats', ep)
      /\ (pc' = "done" \/ report' # report) =>
            /\ pc = "partition" /\ pc' = "done"
            /\ report = Null
            /\ global_stats' = global_stats
            /\ HoldsFirst(global_stats, Len(endpoints))
            /\ report' \in {Null, List(global_stats)}
    ]_vars

C19_Witness ==
  /\ pc = "done"
  /\ Len(endpoints) = 2
  /\ HoldsFirst(global_stats, 2)
  /\ global_stats[1].key # global_stats[2].key
  /\ global_stats[1].value.total_hacks = 1
  /\ global_stats[2].value.total_hacks = 1
  /\ report = List(global_stats)

\* the counters of one partition add up and match their lists
Balanced(st) ==
  /\ st.total_hacks = st.downloaded + st.failed_downloads + st.requires_login
  /\ Len(st.login_required_hacks) = st.requires_login
  /\ Len(st.failed_hacks) = st.failed_downloads

\* the items of the current partition the world treated in the given way
OutcomesOf(kind) == {i \in DOMAIN outcomes : outcomes[i].kind = kind}

\* C20: whenever the run is not inside the handling of an item that raised,
\* so at every item boundary and in every finalized entry, total_hacks =
\* downloaded + failed_downloads + requires_login and the two lists are as
\* long as their counters; inside a partition total_hacks is the number of
\* items with a download URL handled so far and each of them has raised
\* exactly the counter of what happened to it.
C20_CountersAddUp ==
  /\ pc # "crashed" => Balanced(stats)
  /\ \A i \in DOMAIN global_stats : Balanced(global_stats[i].value)
  /\ pc \in {"items", "patch", "delay"} =>
        /\ stats.total_hacks = Len(outcomes) - Cardinality(OutcomesOf("skipped"))
        /\ stats.downloaded = Cardinality(OutcomesOf("downloaded"))
        /\ stats.failed_downloads = Cardinality(OutcomesOf("failed"))
        /\ stats.requires_login = Cardinality(OutcomesOf("login"))

C20_Witness ==
  /\ pc = "items"
  /\ idx = 2
  /\ idx = Len(all_items)
  /\ stats.total_hacks = 2
  /\ stats.requires_login = 1
  /\ stats.failed_downloads = 1
  /\ Len(stats.login_required_hacks) = 1
  /\ Len(stats.failed_hacks) = 1

\* C21: every outcome handed back to main has bps_count equal to the number
\* of entries of bps_files, and at every item boundary of a partition
\* total_bps = patched + failed_patches.
C21_PatchesCounted ==
  /\ pc \in {"patch", "delay"} => result.bps_count = Len(result.bps_files)
  /\ pc = "items" => stats.total_bps = stats.patched + stats.failed_patches

\* the four relations between the fields of an outcome
Consistent(r) ==
  /\ r.success <=> r.error = Null
  /\ r.success => r.download_success
  /\ r.requires_login => (~r.success /\ ~r.download_success)
  /\ r.bps_count > 0 => r.success

\* C22: every outcome returned by download_and_extract_bps has success true
\* exactly when error is unset, success only with download_success,
\* requires_login with neither of the two, and a positive bps_count only
\* with success.
C22_OutcomeConsistent ==
  pc \in {"returned", "repeated"} => Consistent(result)

\* an extraction that failed at its second patch has come back: one file was
\* written, and the outcome carries an error, no success and no count
C22_Witness ==
  /\ pc = "returned"
  /\ io.env.failAt = 2
  /\ io.env.failKind = "Exception"
  /\ Len(result.bps_files) = 1
  /\ result.download_success
  /\ ~result.success
  /\ result.error = ExtractionError
  /\ result.bps_count = 0

\* C23: once the inputs have been found and the partition loop is entered,
\* the run goes on until every selected partition has been finalized and
\* the summary report has been generated.
C23_RunCompletes ==
  (pc = "partition") ~> (pc = "done" /\ Len(global_stats) = Len(endpoints))

====
